---- MODULE Spec2Model ----
(***************************************************************************)
(* Plane_nd (src/Plane_nd.py): least-squares fit of an n-dimensional       *)
(* affine plane.  The object is a record `self`; every public method is an *)
(* operator computed as the code computes it, and an action that calls it. *)
(*                                                                         *)
(* Numbers.  A floating point value is modelled exactly as a pair <<n, d>> *)
(* in lowest terms with d >= 0: d > 0 is the rational n/d, <<0, 0>> is nan *)
(* and <<1, 0>>, <<-1, 0>> are +inf, -inf (what numpy produces for x/0).   *)
(* Rounding is not modelled.                                               *)
(***************************************************************************)
EXTENDS Integers, Sequences, FiniteSets, TLC

(* ------------------------------ bounds --------------------------------- *)
MaxPts == 3
Dims == {1, 2}
Coords == {0, 1}
DepVals == {0, 1}

(* ------------------------------ numbers -------------------------------- *)
Abs(n) == IF n < 0 THEN -n ELSE n

Sgn(n) == IF n < 0 THEN -1 ELSE IF n = 0 THEN 0 ELSE 1

RECURSIVE Gcd(_, _)
Gcd(a, b) == IF b = 0 THEN a ELSE Gcd(b, a % b)

Norm(n, d) ==
    IF d = 1 THEN <<n, 1>>
    ELSE IF d = 0 THEN <<Sgn(n), 0>>
    ELSE LET g == Gcd(Abs(n), Abs(d))
         IN  <<Sgn(d) * Sgn(n) * (Abs(n) \div g), Abs(d) \div g>>

F(n) == <<n, 1>>
NaN == <<0, 0>>
IsNaN(a) == a = NaN
IsFinite(a) == a[2] # 0

RMul(a, b) ==
    IF a[2] = 1 /\ b[2] = 1 THEN <<a[1] * b[1], 1>>
    ELSE Norm(a[1] * b[1], a[2] * b[2])
RNeg(a) == <<-a[1], a[2]>>
RAdd(a, b) ==
    IF a[2] = 1 /\ b[2] = 1 THEN <<a[1] + b[1], 1>>
    ELSE IF a[2] = 0 /\ b[2] = 0 THEN (IF a = b THEN a ELSE NaN)
    ELSE Norm(a[1] * b[2] + b[1] * a[2], a[2] * b[2])
RSub(a, b) == RAdd(a, RNeg(b))
RDiv(a, b) == Norm(a[1] * b[2], a[2] * b[1])

RECURSIVE RSumTo(_, _)
RSumTo(s, k) == IF k = 0 THEN F(0) ELSE RAdd(RSumTo(s, k - 1), s[k])

RSum(s) == RSumTo(s, Len(s))

(* ---------------------------- linear algebra --------------------------- *)
\* Matrices of whole numbers: sequences of rows.
DropAt(s, k) == [i \in 1..(Len(s) - 1) |-> IF i < k THEN s[i] ELSE s[i + 1]]

Minor(A, r, c) == [i \in 1..(Len(A) - 1) |-> DropAt(DropAt(A, r)[i], c)]

RECURSIVE ISumTo(_, _)
ISumTo(s, k) == IF k = 0 THEN 0 ELSE ISumTo(s, k - 1) + s[k]

ISum(s) == ISumTo(s, Len(s))

\* Determinant, by expansion along the first row
RECURSIVE Det(_)
Det(A) ==
    IF Len(A) = 0 THEN 1
    ELSE IF Len(A) = 1 THEN A[1][1]
    ELSE ISum([c \in 1..Len(A) |->
                 (IF c % 2 = 1 THEN 1 ELSE -1) * A[1][c] * Det(Minor(A, 1, c))])

\* Adjugate: Adj(A) / Det(A) is the inverse of A
Adj(A) ==
    [a \in 1..Len(A) |-> [b \in 1..Len(A) |->
        (IF (a + b) % 2 = 0 THEN 1 ELSE -1) * Det(Minor(A, b, a))]]

\* J^T J for a matrix J with n columns
Gram(J, n) ==
    [a \in 1..n |-> [b \in 1..n |-> ISum([i \in 1..Len(J) |-> J[i][a] * J[i][b]])]]

(* ------------------------- Plane_nd: the object ------------------------ *)
\* A call either returns a value or raises (an exception reaches the caller).
Ok(v) == [raised |-> FALSE, val |-> v]
Raise == [raised |-> TRUE, val |-> <<>>]

Min(a, b) == IF a < b THEN a ELSE b

\* __init__: no argument is checked; npts is the length of dvals alone.
Plane_nd(ivals, dvals, dm) ==
    [ivals |-> ivals, dvals |-> dvals, dm |-> dm,
     npars |-> dm + 1,
     npts  |-> Len(dvals),
     ndf   |-> Len(dvals) - (dm + 1)]

\* Fault: the constant 1 is put last instead of first.
zcoord_pad_last(self, x) ==
    LET src == SubSeq(x, 1, Min(self.dm, Len(x)))
    IN  IF Len(src) = self.dm
        THEN Ok([j \in 1..self.dm |-> F(src[j])] \o <<F(1)>>)
        ELSE IF Len(src) = 1
        THEN Ok([j \in 1..self.dm |-> F(src[1])] \o <<F(1)>>)
        ELSE Raise

\* z = np.empty(npars); z[1:npars] = x[0:dm]; z[0] = 1.0
\* The slice x[0:dm] silently drops the entries past dm; a slice of length 1
\* is broadcast over z[1:npars]; any other length raises.
zcoord(self, x) ==
    LET src == SubSeq(x, 1, Min(self.dm, Len(x)))
    IN  IF Len(src) = self.dm
        THEN Ok(<<F(1)>> \o [j \in 1..self.dm |-> F(src[j])])
        ELSE IF Len(src) = 1
        THEN Ok(<<F(1)>> \o [j \in 1..self.dm |-> F(src[1])])
        ELSE Raise

\* fplane(x, *cpars): cpars is the tuple of the extra positional arguments,
\* np.array(cpars) has one row per argument; z * cpars broadcasts z against
\* rows of length npars or 1, and np.sum adds every entry of the product.
fplane(self, x, cpars) ==
    LET z == zcoord(self, x)
    IN  IF z.raised THEN Raise
        ELSE IF \E r \in 1..Len(cpars) : Len(cpars[r]) \notin {self.npars, 1}
        THEN Raise
        ELSE Ok(RSum([r \in 1..Len(cpars) |->
                 RSum([j \in 1..self.npars |->
                    RMul(z.val[j],
                         IF Len(cpars[r]) = 1 THEN cpars[r][1] ELSE cpars[r][j])])]))

\* Fault: the residual is taken as model minus data.
objfun_flipped(self, pars) ==
    LET n == Min(Len(self.dvals), Len(self.ivals))
        fv == [i \in 1..n |-> fplane(self, self.ivals[i], <<pars>>)]
    IN  IF \E i \in 1..n : fv[i].raised THEN Raise
        ELSE Ok([i \in 1..n |-> RSub(fv[i].val, F(self.dvals[i]))])

\* objfun: [dv - self.fplane(iv, pars) for dv, iv in zip(self.dvals, self.ivals)]
\* zip stops at the shorter of the two sequences.
objfun(self, pars) ==
    LET n == Min(Len(self.dvals), Len(self.ivals))
        fv == [i \in 1..n |-> fplane(self, self.ivals[i], <<pars>>)]
    IN  IF \E i \in 1..n : fv[i].raised THEN Raise
        ELSE Ok([i \in 1..n |-> RSub(F(self.dvals[i]), fv[i].val)])

\* Fault: the rows are not negated.
objjac_positive(self, pars) ==
    LET zs == [i \in 1..Len(self.ivals) |-> zcoord(self, self.ivals[i])]
    IN  IF \E i \in 1..Len(zs) : zs[i].raised THEN Raise
        ELSE Ok([i \in 1..Len(zs) |-> [j \in 1..self.npars |-> zs[i].val[j]]])

\* objjac: [-self.zcoord(iv) for iv in self.ivals]
objjac(self, pars) ==
    LET zs == [i \in 1..Len(self.ivals) |-> zcoord(self, self.ivals[i])]
    IN  IF \E i \in 1..Len(zs) : zs[i].raised THEN Raise
        ELSE Ok([i \in 1..Len(zs) |-> [j \in 1..self.npars |-> RNeg(zs[i].val[j])]])

(* --------------------- the external least-squares solver --------------- *)
\* pcov of leastsq: a matrix, or None when J^T J is singular.
PcovNone == [none |-> TRUE, m |-> <<>>]
PcovOf(M) == [none |-> FALSE, m |-> M]

\* The solver is not part of the repository.  It is a deterministic function
\* of the start vector and the two callbacks; which function is fixed by its
\* kind:
\*   "exact"   rejects more parameters than residuals (as MINPACK's wrapper
\*             does), and otherwise takes one Gauss-Newton step from x0 with
\*             the callbacks' residuals and Jacobian, which is the
\*             least-squares minimiser when the Jacobian callback is the
\*             derivative of the residual callback;
\*   "stalled" accepts any number of residuals, makes no progress and returns
\*             x0 (non-convergence).
\* Both reject a Jacobian whose shape is not (len(residuals), len(x0)).
\* The Jacobian's entries are whole numbers (1 and the coordinates, negated),
\* so J^T J, its determinant and its adjugate are computed in whole numbers.
\* When J^T J is singular there is no unique minimiser: pcov is None and
\* x0 is returned.
SolverKinds == {"exact", "stalled"}

leastsq(kind, self, x0) ==
    LET f0 == objfun(self, x0)
        J0 == objjac(self, x0)
        n  == Len(x0)
    IN  IF f0.raised \/ J0.raised THEN Raise
        ELSE IF Len(J0.val) # Len(f0.val) \/ self.npars # n THEN Raise
        ELSE IF kind = "exact" /\ n > Len(f0.val) THEN Raise
        ELSE LET J    == [i \in 1..Len(J0.val) |-> [j \in 1..n |-> J0.val[i][j][1]]]
                 A    == Gram(J, n)
                 dA   == Det(A)
                 adjA == Adj(A)
                 \* J^T f0
                 g    == [a \in 1..n |->
                            RSum([i \in 1..Len(J) |-> RMul(F(J[i][a]), f0.val[i])])]
                 \* the Gauss-Newton step (J^T J)^-1 J^T f0
                 step == [a \in 1..n |->
                            RDiv(RSum([b \in 1..n |-> RMul(F(adjA[a][b]), g[b])]), F(dA))]
             IN  Ok([popt |-> IF kind = "stalled" \/ dA = 0 THEN x0
                              ELSE [j \in 1..n |-> RSub(x0[j], step[j])],
                     pcov |-> IF dA = 0 THEN PcovNone
                              ELSE PcovOf([a \in 1..n |-> [b \in 1..n |->
                                              Norm(adjA[a][b], dA)]])])

(* ------------------------------- dolsq --------------------------------- *)
\* Fault: the last index of the largest entry.
ArgMax_last(s) ==
    CHOOSE k \in 1..Len(s) :
        /\ \A j \in 1..Len(s) : s[j] <= s[k]
        /\ \A j \in (k + 1)..Len(s) : s[j] < s[k]

\* numpy's argmax / argmin: the first index of the largest / smallest entry
ArgMax(s) ==
    CHOOSE k \in 1..Len(s) :
        /\ \A j \in 1..Len(s) : s[j] <= s[k]
        /\ \A j \in 1..(k - 1) : s[j] < s[k]

ArgMin(s) ==
    CHOOSE k \in 1..Len(s) :
        /\ \A j \in 1..Len(s) : s[j] >= s[k]
        /\ \A j \in 1..(k - 1) : s[j] > s[k]

\* np.average(self.dvals)
average(dvals) ==
    RDiv(RSum([k \in 1..Len(dvals) |-> F(dvals[k])]), F(Len(dvals)))

\* Fault: a zero span is guarded and gives the slope 0.
slope_guarded(self, i) ==
    IF i > Len(self.ivals[1]) THEN Raise
    ELSE LET ivti     == [k \in 1..Len(self.ivals) |-> self.ivals[k][i]]
             iv_max_i == ArgMax(ivti)
             iv_min_i == ArgMin(ivti)
         IN  IF iv_max_i > Len(self.dvals) \/ iv_min_i > Len(self.dvals) THEN Raise
             ELSE IF ivti[iv_max_i] = ivti[iv_min_i] THEN Ok(F(0))
             ELSE Ok(RDiv(RDiv(F(self.dvals[iv_max_i] - self.dvals[iv_min_i]),
                               F(ivti[iv_max_i] - ivti[iv_min_i])),
                          F(self.dm)))

\* The slope estimate of axis i (the body of the loop of dolsq).
\* ivt[i-1] raises when ivals has fewer than i columns, self.dvals[k] raises
\* when k is past the end of dvals.
slope(self, i) ==
    IF i > Len(self.ivals[1]) THEN Raise
    ELSE LET ivti     == [k \in 1..Len(self.ivals) |-> self.ivals[k][i]]
             iv_max_i == ArgMax(ivti)
             iv_min_i == ArgMin(ivti)
         IN  IF iv_max_i > Len(self.dvals) \/ iv_min_i > Len(self.dvals) THEN Raise
             ELSE LET iv_max == ivti[iv_max_i]
                      dv_max == self.dvals[iv_max_i]
                      iv_min == ivti[iv_min_i]
                      dv_min == self.dvals[iv_min_i]
                  IN  Ok(RDiv(RDiv(F(dv_max - dv_min), F(iv_max - iv_min)),
                              F(self.dm)))

\* The else branch of dolsq: xini when no guess is given.
xini_default(self) ==
    LET sl == [i \in 1..self.dm |-> slope(self, i)]
    IN  IF \E i \in 1..self.dm : sl[i].raised THEN Raise
        ELSE Ok(<<average(self.dvals)>> \o [i \in 1..self.dm |-> sl[i].val])

\* Fault: `if np.any(guess)`, a guess counts as given when an entry is not 0.
guess_given_any(guess) == \E j \in 1..Len(guess) : guess[j] # F(0)

\* `if list(guess)`: a guess counts as given when it is not empty.
guess_given(guess) == Len(guess) > 0

\* np.copy(guess)
np_copy(guess) == guess

\* An entry of perr: None, or the float sqrt(sq) kept as its radicand sq
\* (np.sqrt of a negative number or of nan is nan).
PyNone == [kind |-> "None", sq |-> NaN]
np_sqrt(q) == [kind |-> "float", sq |-> IF q[1] < 0 THEN NaN ELSE q]

\* Fault: `self.ndf >= 0`.
perr_of_ndf_ge0(self, popt, pcov) ==
    LET resd == objfun(self, popt).val
    IN  IF self.ndf >= 0 /\ ~pcov.none
        THEN LET resd_var == RDiv(RSum([k \in 1..Len(resd) |-> RMul(resd[k], resd[k])]),
                                  F(self.ndf))
             IN  [i \in 1..Len(pcov.m) |-> np_sqrt(RMul(pcov.m[i][i], resd_var))]
        ELSE [di \in 1..self.npars |-> PyNone]

\* Fault: the residual variance is divided by npts.
perr_of_npts(self, popt, pcov) ==
    LET resd == objfun(self, popt).val
    IN  IF self.ndf > 0 /\ ~pcov.none
        THEN LET resd_var == RDiv(RSum([k \in 1..Len(resd) |-> RMul(resd[k], resd[k])]),
                                  F(self.npts))
             IN  [i \in 1..Len(pcov.m) |-> np_sqrt(RMul(pcov.m[i][i], resd_var))]
        ELSE [di \in 1..self.npars |-> PyNone]

\* perr of dolsq, from the solver's popt and pcov
perr_of(self, popt, pcov) ==
    LET resd == objfun(self, popt).val
    IN  IF self.ndf > 0 /\ ~pcov.none
        THEN LET resd_var == RDiv(RSum([k \in 1..Len(resd) |-> RMul(resd[k], resd[k])]),
                                  F(self.ndf))
                 pcovariance == [a \in 1..Len(pcov.m) |-> [b \in 1..Len(pcov.m) |->
                                    RMul(pcov.m[a][b], resd_var)]]
             IN  [i \in 1..Len(pcovariance) |-> np_sqrt(pcovariance[i][i])]
        ELSE [di \in 1..self.npars |-> PyNone]

\* dolsq up to the computation of perr: what the call hands to the solver
\* and what it will return to the caller, or that it raised.  solved tells
\* whether the solver was called, xini is the vector it was called with.
dolsq_fit(self, kind, guess) ==
    LET xini == IF guess_given(guess) THEN Ok(np_copy(guess)) ELSE xini_default(self)
        sol  == IF xini.raised THEN Raise ELSE leastsq(kind, self, xini.val)
    IN  [raised  |-> sol.raised,
         solved  |-> ~xini.raised,
         xini    |-> xini.val,
         popt    |-> IF sol.raised THEN <<>> ELSE sol.val.popt,
         pcov    |-> IF sol.raised THEN PcovNone ELSE sol.val.pcov,
         perr    |-> IF sol.raised THEN <<>>
                     ELSE perr_of(self, sol.val.popt, sol.val.pcov)]

\* `if do_print:` the block prints popt, perr and the solver's diagnostics.
dolsq_print(r, do_print) == do_print /\ ~r.raised

\* dolsq(guess, do_print): the fit, the printing, and `return popt, perr`
dolsq(self, kind, guess, do_print) ==
    LET r == dolsq_fit(self, kind, guess)
    IN  [raised |-> r.raised, popt |-> r.popt, perr |-> r.perr,
         printed |-> dolsq_print(r, do_print)]

(* --------------------------- the state machine ------------------------- *)
\* self: the Plane_nd object.  solver: the kind of the solver linked in.
\* call: the call in progress on the object, with what it returned or that
\* it raised, and the object as it was when the call was made; NoCall
\* between two calls.
VARIABLES self, solver, call

vars == <<self, solver, call>>

NoCall ==
    [op |-> "none", arg |-> <<>>, do_print |-> FALSE, raised |-> FALSE,
     solved |-> FALSE, xini |-> <<>>, popt |-> <<>>, pcov |-> PcovNone,
     perr |-> <<>>, printed |-> FALSE, ret |-> <<>>, before |-> <<>>]

Floats(v) == [j \in 1..Len(v) |-> F(v[j])]

\* Parameter vectors used as arguments: all zero, and 1, 2, .., n
ParVecs(n) == {[j \in 1..n |-> a * j] : a \in 0..1}

\* Guesses: none given (empty), or a vector of npars entries
Guesses(n) == {<<>>} \cup ParVecs(n)

\* Guesses of a wrong length: a single entry, and one entry too many
BadGuesses(n) == {<<1>>, [j \in 1..(n + 1) |-> j]}

\* Plane_nd(ivals, dvals, dm) on a well-formed sample set
Init ==
    /\ \E dm \in Dims, n \in 1..MaxPts :
         \E ivals \in [1..n -> [1..dm -> Coords]], dvals \in [1..n -> DepVals] :
            self = Plane_nd(ivals, dvals, dm)
    /\ solver \in SolverKinds
    /\ call = NoCall

\* Plane_nd(ivals, dvals, dm) on any arguments: the constructor checks none.
\* The solver is the kind that rejects more.
InitRaw ==
    /\ \E dm \in Dims, ni \in 1..MaxPts, nd \in 1..MaxPts, L \in Dims :
         \E ivals \in [1..ni -> [1..L -> Coords]], dvals \in [1..nd -> DepVals] :
            self = Plane_nd(ivals, dvals, dm)
    /\ solver = "exact"
    /\ call = NoCall

\* Fault: the fit shifts the stored dependent values in place
\* (`self.dvals -= self.dvals[0]`).
DolsqOn_inplace(G) ==
    /\ call.op = "none"
    /\ \E guess \in G :
         \E r \in {dolsq_fit(self, solver, Floats(guess))} :
            \E do_print \in BOOLEAN :
               call' = [NoCall EXCEPT !.op = "dolsq", !.arg = guess, !.before = self,
                           !.do_print = do_print, !.raised = r.raised,
                           !.solved = r.solved, !.xini = r.xini, !.popt = r.popt,
                           !.pcov = r.pcov, !.perr = r.perr,
                           !.printed = dolsq_print(r, do_print)]
    /\ self' = [self EXCEPT !.dvals = [k \in 1..Len(self.dvals) |->
                                          self.dvals[k] - self.dvals[1]]]
    /\ UNCHANGED solver

\* fitter.dolsq(guess, do_print) for the guesses of the set G
DolsqOn(G) ==
    /\ call.op = "none"
    /\ \E guess \in G :
         \E r \in {dolsq_fit(self, solver, Floats(guess))} :
            \E do_print \in BOOLEAN :
               call' = [NoCall EXCEPT !.op = "dolsq", !.arg = guess, !.before = self,
                           !.do_print = do_print, !.raised = r.raised,
                           !.solved = r.solved, !.xini = r.xini, !.popt = r.popt,
                           !.pcov = r.pcov, !.perr = r.perr,
                           !.printed = dolsq_print(r, do_print)]
    /\ UNCHANGED <<self, solver>>

\* fitter.dolsq(), fitter.dolsq(guess), with do_print or without
Dolsq == DolsqOn(Guesses(self.npars))

\* fitter.dolsq(guess) with a guess of a wrong length
DolsqBadGuess == DolsqOn(BadGuesses(self.npars))

\* fitter.objfun(pars)
Objfun ==
    /\ call.op = "none"
    /\ \E pars \in ParVecs(self.npars) :
         \E r \in {objfun(self, Floats(pars))} :
            call' = [NoCall EXCEPT !.op = "objfun", !.arg = pars,
                        !.raised = r.raised, !.ret = r.val]
    /\ UNCHANGED <<self, solver>>

\* fitter.objjac(pars)
Objjac ==
    /\ call.op = "none"
    /\ \E pars \in ParVecs(self.npars) :
         \E r \in {objjac(self, Floats(pars))} :
            call' = [NoCall EXCEPT !.op = "objjac", !.arg = pars,
                        !.raised = r.raised, !.ret = r.val]
    /\ UNCHANGED <<self, solver>>

\* The caller has taken the result (or caught the exception).
Return ==
    /\ call.op # "none"
    /\ call' = NoCall
    /\ UNCHANGED <<self, solver>>

Next == Dolsq \/ Objfun \/ Objjac \/ Return

NextRaw == Dolsq \/ DolsqBadGuess \/ Objfun \/ Objjac \/ Return

Spec == Init /\ [][Next]_vars

SpecRaw == InitRaw /\ [][NextRaw]_vars

(* ------------------------------ the claims ----------------------------- *)
\* The sample set as the claims speak of it: N points of dimension D.
N == Len(self.dvals)
D == self.dm
X(i, j) == self.ivals[i][j]
Y(i) == self.dvals[i]

\* c[1] + sum_j c[j+1] * x_i[j] for a vector c of whole numbers
PlaneAt(c, i) == c[1] + ISum([j \in 1..D |-> c[j + 1] * X(i, j)])

\* the same for a vector p of floats
RPlaneAt(p, i) == RAdd(p[1], RSum([j \in 1..D |-> RMul(p[j + 1], F(X(i, j)))]))

\* sum of the squared residuals at p
SSR(p) ==
    RSum([i \in 1..N |-> RMul(RSub(F(Y(i)), RPlaneAt(p, i)),
                              RSub(F(Y(i)), RPlaneAt(p, i)))])

Fitted == call.op = "dolsq" /\ ~call.raised

\* C4: residuals(params) has one entry per sample, in sample order, and
\* entry i is dependent_i - (params[0] + sum_j params[j] * independent_i[j-1]).
C4_Residuals ==
    call.op = "objfun" =>
        /\ ~call.raised
        /\ Len(call.ret) = N
        /\ \A i \in 1..N : call.ret[i] = F(Y(i) - PlaneAt(call.arg, i))

C4_Witness ==
    /\ call.op = "objfun"
    /\ N >= 3
    /\ \E j \in 1..D : call.arg[j + 1] # 0
    /\ call.ret[1] # call.ret[2] /\ call.ret[2] # call.ret[3]
    /\ call.ret[1] # call.ret[3]

\* pars with entry j raised by 1
Bump(pars, j) == [k \in 1..Len(pars) |-> IF k = j THEN pars[k] + 1 ELSE pars[k]]

\* C5: jacobian(params) is an N x (D+1) matrix, row i is the negated padded
\* coordinate [-1, -x_i[0], .., -x_i[D-1]] of sample i; it is the same matrix
\* for every parameter vector; entry (i, j) is the change of residual i when
\* params[j] is raised by 1.
C5_Jacobian ==
    call.op = "objjac" =>
        /\ ~call.raised
        /\ Len(call.ret) = N
        /\ \A i \in 1..N :
              /\ Len(call.ret[i]) = D + 1
              /\ call.ret[i][1] = F(-1)
              /\ \A j \in 1..D : call.ret[i][j + 1] = F(-X(i, j))
        /\ \A q \in ParVecs(D + 1) :
              \E other \in {objjac(self, Floats(q))} :
                 ~other.raised /\ other.val = call.ret
        /\ \E base \in {objfun(self, Floats(call.arg)).val} :
              \A j \in 1..(D + 1) :
                 \E bumped \in {objfun(self, Floats(Bump(call.arg, j))).val} :
                    \A i \in 1..N : call.ret[i][j] = RSub(bumped[i], base[i])

C5_Witness ==
    /\ call.op = "objjac"
    /\ D = 2 /\ N >= 3
    /\ \E i \in 1..N : X(i, 1) # X(i, 2)
    /\ \E i \in 1..N, k \in 1..N : call.ret[i] # call.ret[k]
    /\ \E j \in 1..(D + 1) : call.arg[j] # 0

\* The formula of the slope estimate of axis i, from the sample set alone.
FirstMax(i) ==
    CHOOSE k \in 1..N : /\ \A m \in 1..N : X(m, i) <= X(k, i)
                        /\ \A m \in 1..(k - 1) : X(m, i) < X(k, i)

FirstMin(i) ==
    CHOOSE k \in 1..N : /\ \A m \in 1..N : X(m, i) >= X(k, i)
                        /\ \A m \in 1..(k - 1) : X(m, i) > X(k, i)

SlopeNum(i) == Y(FirstMax(i)) - Y(FirstMin(i))
SlopeDen(i) == (X(FirstMax(i), i) - X(FirstMin(i), i)) * D

ConstantAxis(i) == \A k \in 1..N : X(k, i) = X(1, i)

\* a float v equals the quotient num / den of whole numbers (nan for 0 / 0)
IsQuotient(v, num, den) ==
    IF den # 0 THEN IsFinite(v) /\ v[1] * den = num * v[2]
    ELSE IF num = 0 THEN IsNaN(v)
    ELSE ~IsFinite(v) /\ ~IsNaN(v)

\* C8: without a guess the vector handed to the solver has D+1 entries,
\* entry 0 is the mean of the dependent values and entry i is
\* (dep[imax] - dep[imin]) / (x[imax][i-1] - x[imin][i-1]) / D with imax, imin
\* the first samples attaining the maximum, the minimum of axis i.
C8_DefaultGuess ==
    (call.op = "dolsq" /\ call.arg = <<>>) =>
        /\ call.solved
        /\ Len(call.xini) = D + 1
        /\ IsQuotient(call.xini[1], ISum([k \in 1..N |-> Y(k)]), N)
        /\ \A i \in 1..D : IsQuotient(call.xini[i + 1], SlopeNum(i), SlopeDen(i))

C8_Witness ==
    /\ call.op = "dolsq" /\ call.arg = <<>> /\ call.solved
    /\ D = 2 /\ N = 3
    /\ call.xini[1][2] = 3
    /\ \A i \in 1..D : IsFinite(call.xini[i + 1]) /\ call.xini[i + 1][1] # 0
    \* a tie for the maximum of axis 1 between samples of different value
    /\ \E k \in 1..N : /\ k # FirstMax(1)
                       /\ X(k, 1) = X(FirstMax(1), 1)
                       /\ Y(k) # Y(FirstMax(1))

\* C9: a supplied guess of D+1 entries, all zero or not, is the vector handed
\* to the solver, entry for entry; the heuristic runs only without a guess.
C9_GuessVerbatim ==
    (call.op = "dolsq" /\ Len(call.arg) = D + 1) =>
        /\ call.solved
        /\ call.xini = Floats(call.arg)

C9_Witness ==
    /\ call.op = "dolsq" /\ Len(call.arg) = D + 1 /\ call.solved
    /\ \A j \in 1..(D + 1) : call.arg[j] = 0
    /\ call.xini = [j \in 1..(D + 1) |-> F(0)]
    /\ xini_default(self).val[1] # F(0)
    /\ \E i \in 1..D : IsFinite(xini_default(self).val[i + 1])
                       /\ xini_default(self).val[i + 1] # F(0)

\* C10: without a guess, an axis with the same value in every sample makes
\* the slope a division 0 / 0 (the first sample is both the maximum and the
\* minimum); the non-finite entry stays in the vector, and the solver is
\* called with that vector: no failure is signalled before.
C10_DegenerateAxis ==
    (call.op = "dolsq" /\ call.arg = <<>>) =>
        \A i \in 1..D :
           ConstantAxis(i) =>
              /\ FirstMax(i) = 1 /\ FirstMin(i) = 1
              /\ SlopeNum(i) = 0 /\ SlopeDen(i) = 0
              /\ call.solved
              /\ Len(call.xini) = D + 1
              /\ ~IsFinite(call.xini[i + 1])

C10_Witness ==
    /\ call.op = "dolsq" /\ call.arg = <<>> /\ call.solved
    /\ D = 2 /\ N = 3
    /\ ConstantAxis(1) /\ ~ConstantAxis(2)
    /\ IsNaN(call.xini[2]) /\ IsFinite(call.xini[3])
    /\ \E k \in 1..N : Y(k) # Y(1)

AllNone(perr) == \A i \in 1..Len(perr) : perr[i].kind = "None"

\* C2: with ndf = N - (D+1) <= 0 every fit that returns, with a guess or
\* without, returns D+1 errors that are all the undefined marker, whether the
\* solver's covariance proxy is a matrix or the singular signal.
C2_NoDegreesOfFreedom ==
    (Fitted /\ self.ndf <= 0) =>
        /\ self.ndf = N - (D + 1)
        /\ Len(call.perr) = D + 1
        /\ AllNone(call.perr)

C2_Witness ==
    /\ Fitted /\ self.ndf = 0 /\ D = 2
    /\ ~call.pcov.none
    /\ \A i \in 1..(D + 1) : call.pcov.m[i][i][1] > 0
    /\ Len(call.perr) = D + 1 /\ AllNone(call.perr)

\* C3: the errors of a fit that returns are D+1 entries, all numbers or all
\* undefined: numbers exactly when ndf > 0 and the covariance proxy is not
\* singular, and then errors[i] is the nonnegative square root of
\* proxy[i][i] * (sum of squared residuals at the returned params) / ndf.
C3_Errors ==
    Fitted =>
        /\ Len(call.perr) = D + 1
        /\ IF self.ndf > 0 /\ ~call.pcov.none
           THEN \A i \in 1..(D + 1) :
                   /\ call.perr[i].kind = "float"
                   /\ IsFinite(call.perr[i].sq) /\ call.perr[i].sq[1] >= 0
                   /\ RMul(call.perr[i].sq, F(self.ndf))
                         = RMul(call.pcov.m[i][i], SSR(call.popt))
           ELSE AllNone(call.perr)

C3_Witness ==
    /\ Fitted /\ self.ndf > 0 /\ ~call.pcov.none /\ D = 1
    /\ solver = "exact"
    /\ \A i \in 1..(D + 1) : call.perr[i].kind = "float" /\ call.perr[i].sq[1] > 0
    /\ call.perr[1].sq # call.perr[2].sq

\* The sample set is generated exactly from the coefficients c.
ExactFrom(c) == \A i \in 1..N : Y(i) = PlaneAt(c, i)

\* Coefficient vectors of whole numbers; every exact sample set over Coords
\* and DepVals that determines its coefficients has them in this range.
Coefs == [1..(D + 1) -> -1..2]

\* The padded sample matrix [1, x_i] has full column rank: the samples do not
\* lie in one affine subspace of dimension D - 1.
FullRank == Det(Gram([i \in 1..N |-> [j \in 1..(D + 1) |->
                        IF j = 1 THEN 1 ELSE X(i, j - 1)]], D + 1)) # 0

ZeroErrors(perr) ==
    \A i \in 1..Len(perr) : perr[i].kind = "float" /\ perr[i].sq = F(0)

\* C1 as stated: exact data of N >= D+1 points, no guess, a solver that
\* returns a minimiser: params are the coefficients and every error is a
\* finite zero.
C1_AsStated ==
    (call.op = "dolsq" /\ call.arg = <<>> /\ solver = "exact" /\ N >= D + 1) =>
        \A c \in Coefs :
           ExactFrom(c) =>
              /\ ~call.raised
              /\ call.popt = Floats(c)
              /\ Len(call.perr) = D + 1
              /\ ZeroErrors(call.perr)

\* C1, amended: the same for N >= D+2 points (ndf > 0) whose padded sample
\* matrix has full column rank.
C1_ExactRecovery ==
    (call.op = "dolsq" /\ call.arg = <<>> /\ solver = "exact"
        /\ N >= D + 2 /\ FullRank) =>
        \A c \in Coefs :
           ExactFrom(c) =>
              /\ ~call.raised
              /\ call.popt = Floats(c)
              /\ Len(call.perr) = D + 1
              /\ ZeroErrors(call.perr)

C1_Witness ==
    /\ Fitted /\ call.arg = <<>> /\ solver = "exact"
    /\ D = 1 /\ N >= D + 2 /\ FullRank
    /\ \E c \in Coefs : /\ ExactFrom(c) /\ c[2] # 0
                        /\ call.popt = Floats(c)
                        /\ call.xini # Floats(c)
    /\ ZeroErrors(call.perr)

\* A precondition of the constructor or of the fit is violated.
LengthsDiffer == Len(self.ivals) # Len(self.dvals)
BadVector == \E k \in 1..Len(self.ivals) : Len(self.ivals[k]) # self.dm
BadGuess == call.arg # <<>> /\ Len(call.arg) # self.npars

\* C6: every fit on a sample set with sequences of different lengths, with a
\* vector whose length is not D, or with a supplied guess whose length is not
\* D+1 signals a failure and returns no result.
C6_FailFast ==
    (call.op = "dolsq" /\ (LengthsDiffer \/ BadVector \/ BadGuess)) => call.raised

====
